---------------------------- MODULE Spec2Model ----------------------------
(***************************************************************************)
(* Model of host/RunHardware.cpp: the host harness that drives the matrix  *)
(* multiplication kernel.  One run of main() is one behaviour.  Every      *)
(* statement of main() that calls the accelerator runtime is one action;   *)
(* a runtime call either returns or throws std::runtime_error.             *)
(*                                                                         *)
(* Data_t values are counted in ticks.  An integral Data_t has one tick    *)
(* per unit; a floating Data_t is modelled on a grid of TicksPerUnit ticks *)
(* per unit, so that the tolerance 1e-3 is exactly one tick.               *)
(***************************************************************************)
EXTENDS Integers, Sequences, FiniteSets, TLC

VARIABLES
  argv,        \* argv[1..argc-1], the command line arguments
  integral,    \* std::is_integral<Data_t>::value of the build
  env,         \* XCL_EMULATION_MODE: <<>> when unset, <<value>> when set
  pc,          \* position of main()
  emulation, verify, path,
  rng,         \* state of std::default_random_engine
  a, b, cRef,  \* std::vector<Data_t>
  aMem, bMem, cMem,  \* std::vector<MemoryPack_t>
  held,        \* live accelerator objects of the try block
  device,      \* the three device buffers
  elapsed, perf,
  cTest, vi, vj,
  examined,    \* history: the coordinates the comparison has looked at
  out, err,    \* lines written to std::cout / std::cerr
  reports,     \* mismatches written to std::cerr
  errOp,       \* the runtime call that threw, <<>> when none did
  ops,         \* history: the operations started so far, in order
  exitCode     \* <<>> while running, <<status>> once main() returned

hostVars == <<rng, a, b, cRef, aMem, bMem, cMem>>
argVars == <<argv, integral, emulation, verify, path>>
verifyVars == <<cTest, vi, vj, examined, reports>>
vars == <<argv, integral, env, pc, emulation, verify, path, rng, a, b, cRef,
          aMem, bMem, cMem, held, device, elapsed, perf, cTest, vi, vj,
          examined, out, err, reports, errOp, ops, exitCode>>

---------------------------------------------------------------------------
(* Bounds of the model *)

MaxArgs == 3        \* longest command line explored
RowsN == 2          \* rows of A and C
PacksK == 1         \* memory packs in a row of A
MaxFaults == 2      \* elements of the kernel's result that may be wrong

MaxPacks == 3        \* longest operand packed on its own, in memory packs

ArgTokens == {"hw", "hw_emu", "on", "off", "foo", "maybe"}
EnvInitial == {<<>>, <<"hw_emu">>, <<"sw_emu">>}
ElapsedVals == {1, 2}

(* Compile-time configuration (MatrixMultiplication.h); a row of B and of  *)
(* C is one memory pack wide                                               *)
kMemoryWidth == 2
kSeed == 5
kSizeN == RowsN
kSizeK == kMemoryWidth * PacksK
kSizeM == kMemoryWidth

TicksPerUnit(isInt) == IF isInt THEN 1 ELSE 1000

\* static_cast<Data_t>(1e-3): truncation for an integral Data_t
Epsilon(isInt) == TicksPerUnit(isInt) \div 1000

Abs(x) == IF x < 0 THEN -x ELSE x

---------------------------------------------------------------------------
(* std::default_random_engine rng(kSeed) and dist(1, 10), as libstdc++     *)
(* builds them: minstd_rand0 (x * 16807 mod 2^31-1, Schrage's method keeps *)
(* the products inside 32 bits) and the scaling / rejection of             *)
(* uniform_int_distribution; uniform_real_distribution takes two engine    *)
(* values, the second being the high-order one, quantised to half units.   *)

RngModulus == 2147483647

RngSeed(s) == IF s % RngModulus = 0 THEN 1 ELSE s % RngModulus

RngStep(s) ==
  LET t == 16807 * (s % 127773) - 2836 * (s \div 127773)
  IN  IF t > 0 THEN t ELSE t + RngModulus

RECURSIVE DrawInt(_)
DrawInt(s) ==
  LET s1 == RngStep(s)
      ret == s1 - 1
  IN  IF ret >= 2147483640 THEN DrawInt(s1)
      ELSE [val |-> ret \div 214748364 + 1, state |-> s1]

DrawReal(s) ==
  LET s1 == RngStep(s)
      s2 == RngStep(s1)
  IN  [val |-> 1000 + 500 * ((s2 - 1) \div 119304647), state |-> s2]

\* in = Data_t(dist(rng))
Draw(isInt, s) == IF isInt THEN DrawInt(s) ELSE DrawReal(s)

\* std::for_each over a vector of n elements, first element drawn first
RECURSIVE Generate(_, _, _)
Generate(isInt, n, s) ==
  IF n = 0 THEN [vals |-> <<>>, state |-> s]
  ELSE LET d == Draw(isInt, s)
           rest == Generate(isInt, n - 1, d.state)
       IN  [vals |-> <<d.val>> \o rest.vals, state |-> rest.state]

Zeros(n) == [i \in 1..n |-> 0]

---------------------------------------------------------------------------
(* Utility.h: Pack, Unpack and ReferenceImplementation *)

\* mutant: pack p gathers every (Len / width)-th element, starting at p
Pack_Strided(x) ==
  [p \in 1..(Len(x) \div kMemoryWidth) |->
     [w \in 1..kMemoryWidth |-> x[(w - 1) * (Len(x) \div kMemoryWidth) + p]]]

Pack(x) ==
  [p \in 1..(Len(x) \div kMemoryWidth) |->
     [w \in 1..kMemoryWidth |-> x[(p - 1) * kMemoryWidth + w]]]

Unpack(packs) ==
  [e \in 1..(Len(packs) * kMemoryWidth) |->
     packs[((e - 1) \div kMemoryWidth) + 1][((e - 1) % kMemoryWidth) + 1]]

RECURSIVE Dot(_, _, _, _, _, _)
Dot(isInt, x, y, i, j, k) ==
  IF k = kSizeK THEN 0
  ELSE (x[i * kSizeK + k + 1] * y[k * kSizeM + j + 1]) \div TicksPerUnit(isInt)
       + Dot(isInt, x, y, i, j, k + 1)

ReferenceImplementation(isInt, x, y) ==
  [e \in 1..(kSizeN * kSizeM) |->
     Dot(isInt, x, y, (e - 1) \div kSizeM, (e - 1) % kSizeM, 0)]

---------------------------------------------------------------------------
(* Argument parsing, lines 29-56 *)

HwPath == "MatrixMultiplication_hw.xclbin"
EmuPath == "MatrixMultiplication_hw_emu.xclbin"
UsageText == "Usage: ./RunHardware.exe <mode [hw/hw_emu]> [<verify [on/off]>]"

argc(args) == Len(args) + 1

\* mutant: the argument count test is off by one
TooManyArgs_OffByOne(args) == argc(args) > 4

TooManyArgs(args) == argc(args) > 3
BadMode(args) == argc(args) > 1 /\ args[1] # "hw_emu" /\ args[1] # "hw"
BadVerify(args) == argc(args) > 2 /\ args[2] # "off" /\ args[2] # "on"

\* one of the three "PrintUsage(); return 1;" exits is taken
UsageError(args) ==
  TooManyArgs(args) \/ BadMode(args) \/ BadVerify(args)

EmulationArg(args) ==
  ~TooManyArgs(args) /\ argc(args) > 1 /\ args[1] = "hw_emu"

VerifyArg(args) ==
  ~(~UsageError(args) /\ argc(args) > 2 /\ args[2] = "off")

\* mutant: the image name is not switched for hw_emu
PathArg_AlwaysHw(args) == HwPath

PathArg(args) == IF EmulationArg(args) THEN EmuPath ELSE HwPath

\* mutant: the variable is not unset first
EnvAfterParse_NoUnset(e0, args) ==
  IF EmulationArg(args) THEN <<"hw_emu">> ELSE e0

\* line 31 unsets whatever value e0 the shell left, line 41 sets hw_emu
EnvAfterParse(e0, args) == IF EmulationArg(args) THEN <<"hw_emu">> ELSE <<>>

---------------------------------------------------------------------------
BufferNames == {"aDevice", "bDevice", "cDevice"}
NoBuffer == [alloc |-> FALSE, access |-> "none", bank |-> "none",
             size |-> 0, data |-> <<>>]
NoDevice == [n \in BufferNames |-> NoBuffer]
NoPerf == [num |-> 0, den |-> 1]

Init ==
  /\ argv \in UNION {[1..n -> ArgTokens] : n \in 0..MaxArgs}
  /\ integral \in BOOLEAN
  /\ env \in EnvInitial
  /\ pc = "parse"
  /\ emulation = FALSE
  /\ verify = TRUE
  /\ path = HwPath
  /\ rng = RngSeed(kSeed)
  /\ a = <<>> /\ b = <<>> /\ cRef = <<>>
  /\ aMem = <<>> /\ bMem = <<>> /\ cMem = <<>>
  /\ held = {}
  /\ device = NoDevice
  /\ elapsed = 0
  /\ perf = NoPerf
  /\ cTest = <<>> /\ vi = 0 /\ vj = 0
  /\ examined = <<>>
  /\ out = <<>> /\ err = <<>>
  /\ reports = <<>>
  /\ errOp = <<>>
  /\ ops = <<>>
  /\ exitCode = <<>>

\* lines 29-56
ParseArgs ==
  /\ pc = "parse"
  /\ env' = EnvAfterParse(env, argv)
  /\ emulation' = EmulationArg(argv)
  /\ verify' = VerifyArg(argv)
  /\ path' = PathArg(argv)
  /\ IF UsageError(argv)
       THEN /\ out' = out \o <<UsageText>>
            /\ exitCode' = <<1>>
            /\ pc' = "done"
       ELSE /\ out' = out
            /\ exitCode' = exitCode
            /\ pc' = "hostinit"
  /\ UNCHANGED <<argv, integral, hostVars, held, device, elapsed, perf,
                 verifyVars, err, errOp, ops>>

\* mutant: B is filled before A
HostInit_BFirst ==
  /\ pc = "hostinit"
  /\ IF verify
       THEN LET gb == Generate(integral, kSizeK * kSizeM, rng)
                ga == Generate(integral, kSizeN * kSizeK, gb.state)
                zc == Zeros(kSizeN * kSizeM)
            IN  /\ a' = ga.vals
                /\ b' = gb.vals
                /\ cRef' = zc
                /\ rng' = ga.state
                /\ aMem' = Pack(ga.vals)
                /\ bMem' = Pack(gb.vals)
                /\ cMem' = Pack(zc)
                /\ ops' = ops \o <<"Generate", "Pack">>
       ELSE UNCHANGED <<hostVars, ops>>
  /\ out' = out \o <<"Initializing host memory...", " Done.">>
  /\ pc' = "context"
  /\ UNCHANGED <<argVars, env, held, device, elapsed, perf, verifyVars,
                 err, errOp, exitCode>>

\* lines 58-75
HostInit ==
  /\ pc = "hostinit"
  /\ IF verify
       THEN LET ga == Generate(integral, kSizeN * kSizeK, rng)
                gb == Generate(integral, kSizeK * kSizeM, ga.state)
                zc == Zeros(kSizeN * kSizeM)
            IN  /\ a' = ga.vals
                /\ b' = gb.vals
                /\ cRef' = zc
                /\ rng' = gb.state
                /\ aMem' = Pack(ga.vals)
                /\ bMem' = Pack(gb.vals)
                /\ cMem' = Pack(zc)
                /\ ops' = ops \o <<"Generate", "Pack">>
       ELSE UNCHANGED <<hostVars, ops>>
  /\ out' = out \o <<"Initializing host memory...", " Done.">>
  /\ pc' = "context"
  /\ UNCHANGED <<argVars, env, held, device, elapsed, perf, verifyVars,
                 err, errOp, exitCode>>

---------------------------------------------------------------------------
(* The accelerator session, lines 77-123 *)

\* mutant: the objects of the try block outlive the exception
Throw_NoUnwind(op) ==
  /\ errOp' = <<op>>
  /\ pc' = "catch"
  /\ elapsed' = 0
  /\ perf' = NoPerf
  /\ UNCHANGED <<held, device>>

\* a runtime call throws std::runtime_error: the try block is left, its
\* locals (context, program, buffers, kernel, elapsed, perf) are destroyed
\* by the unwinding
Throw(op) ==
  /\ errOp' = <<op>>
  /\ held' = {}
  /\ device' = NoDevice
  /\ elapsed' = 0
  /\ perf' = NoPerf
  /\ pc' = "catch"

\* lines 78-79
AcquireContext ==
  /\ pc = "context"
  /\ out' = out \o <<"Initializing OpenCL context...">>
  /\ ops' = ops \o <<"Context">>
  /\ \/ /\ held' = held \cup {"context"}
        /\ pc' = "program"
        /\ UNCHANGED <<device, errOp, elapsed, perf>>
     \/ Throw("Context")
  /\ UNCHANGED <<argVars, env, hostVars, verifyVars, err, exitCode>>

\* lines 81-82
MakeProgram ==
  /\ pc = "program"
  /\ out' = out \o <<"Programming device...">>
  /\ ops' = ops \o <<"MakeProgram:" \o path>>
  /\ \/ /\ held' = held \cup {"program"}
        /\ pc' = "bufA"
        /\ UNCHANGED <<device, errOp, elapsed, perf>>
     \/ Throw("MakeProgram:" \o path)
  /\ UNCHANGED <<argVars, env, hostVars, verifyVars, err, exitCode>>

\* mutant: the buffer is sized in elements, not in memory packs
SizeA_InElements == kSizeN * kSizeK

SizeA == (kSizeN * kSizeK) \div kMemoryWidth
SizeB == (kSizeK * kSizeM) \div kMemoryWidth
SizeC == (kSizeN * kSizeM) \div kMemoryWidth

\* context.MakeBuffer<MemoryPack_t, access>(bank, size): the contents of a
\* fresh buffer are indeterminate, written <<>>
MakeBuffer(name, access, bank, size, here, there) ==
  /\ pc = here
  /\ ops' = ops \o <<"MakeBuffer:" \o name>>
  /\ \/ /\ device' = [device EXCEPT ![name] =
                        [alloc |-> TRUE, access |-> access, bank |-> bank,
                         size |-> size, data |-> <<>>]]
        /\ held' = held \cup {name}
        /\ pc' = there
        /\ UNCHANGED <<errOp, elapsed, perf>>
     \/ Throw("MakeBuffer:" \o name)
  /\ UNCHANGED <<argVars, env, hostVars, verifyVars, err, exitCode>>

\* mutant: the result is copied back before the kernel has run
AfterBuffers_CopyBackFirst(v) == IF v THEN "copyback" ELSE "mkkernel"

\* mutant: the input transfers are skipped
AfterBuffers_SkipTransfer(v) == "mkkernel"

\* line 92: if (verify)
AfterBuffers(v) == IF v THEN "copyA" ELSE "mkkernel"

\* lines 84-86
MakeBufferA ==
  /\ MakeBuffer("aDevice", "read", "bank0", SizeA, "bufA", "bufB")
  /\ out' = out \o <<"Initializing device memory...">>

\* lines 87-88
MakeBufferB ==
  /\ MakeBuffer("bDevice", "read", "bank1", SizeB, "bufB", "bufC")
  /\ out' = out

\* lines 89-90
MakeBufferC ==
  /\ MakeBuffer("cDevice", "write", "bank1", SizeC, "bufC",
                AfterBuffers(verify))
  /\ out' = out

Take(s, n) == [i \in 1..n |-> s[i]]

\* buffer.CopyFromHost(mem.cbegin()): copies as many packs as the buffer holds
CopyFromHost(name, mem, here, there) ==
  /\ pc = here
  /\ ops' = ops \o <<"CopyFromHost:" \o name>>
  /\ \/ /\ device' = [device EXCEPT ![name].data = Take(mem, device[name].size)]
        /\ pc' = there
        /\ UNCHANGED <<held, errOp, elapsed, perf>>
     \/ Throw("CopyFromHost:" \o name)
  /\ UNCHANGED <<argVars, env, hostVars, verifyVars, err, exitCode>>

\* lines 93-94
CopyFromHostA ==
  /\ CopyFromHost("aDevice", aMem, "copyA", "copyB")
  /\ out' = out \o <<"Copying memory to device...">>

\* line 95
CopyFromHostB ==
  /\ CopyFromHost("bDevice", bMem, "copyB", "copyC")
  /\ out' = out

\* line 96
CopyFromHostC ==
  /\ CopyFromHost("cDevice", cMem, "copyC", "mkkernel")
  /\ out' = out

\* lines 99-101
MakeKernel ==
  /\ pc = "mkkernel"
  /\ out' = out \o <<"Creating kernel...">>
  /\ ops' = ops \o <<"MakeKernel">>
  /\ \/ /\ held' = held \cup {"kernel"}
        /\ pc' = "launch"
        /\ UNCHANGED <<device, errOp, elapsed, perf>>
     \/ Throw("MakeKernel")
  /\ UNCHANGED <<argVars, env, hostVars, verifyVars, err, exitCode>>

---------------------------------------------------------------------------
(* The kernel is an opaque unit: what it leaves in the output buffer is    *)
(* any of the results below.                                               *)

GarbageVals == {0, 7}

FaultDeltas(isInt) ==
  {-(Epsilon(isInt) + 1), Epsilon(isInt), Epsilon(isInt) + 1}

\* vectors of n deviations, at most f of them non-zero
RECURSIVE Deviations(_, _, _)
Deviations(isInt, n, f) ==
  IF n = 0 THEN {<<>>}
  ELSE {Append(d, 0) : d \in Deviations(isInt, n - 1, f)}
       \cup (IF f = 0 THEN {}
             ELSE {Append(d, x) : d \in Deviations(isInt, n - 1, f - 1),
                                  x \in FaultDeltas(isInt)})

KernelResults(isInt, dev) ==
  IF dev["aDevice"].data = <<>> \/ dev["bDevice"].data = <<>>
    THEN {Pack([e \in 1..(kSizeN * kSizeM) |-> g]) : g \in GarbageVals}
    ELSE LET exact == ReferenceImplementation(isInt,
                        Unpack(dev["aDevice"].data), Unpack(dev["bDevice"].data))
         IN  {Pack([e \in 1..(kSizeN * kSizeM) |-> exact[e] + d[e]]) :
                d \in Deviations(isInt, kSizeN * kSizeM, MaxFaults)}
             \cup {dev["cDevice"].data}

\* lines 103-104: kernel.ExecuteTask() enqueues the task ...
KernelLaunch ==
  /\ pc = "launch"
  /\ out' = out \o <<"Executing kernel...">>
  /\ ops' = ops \o <<"ExecuteTask">>
  /\ pc' = "executing"
  /\ UNCHANGED <<argVars, env, hostVars, held, device, elapsed, perf,
                 verifyVars, err, errOp, exitCode>>

\* mutant: the wait for the task may time out and the run carries on
KernelReturn_OrTimeout ==
  /\ pc = "executing"
  /\ \/ /\ \E res \in KernelResults(integral, device) :
             device' = [device EXCEPT !["cDevice"].data = res]
        /\ elapsed' \in ElapsedVals
        /\ pc' = "report"
        /\ UNCHANGED <<held, errOp, perf>>
     \/ /\ pc' = "scopeexit"
        /\ UNCHANGED <<held, device, errOp, elapsed, perf>>
     \/ Throw("ExecuteTask")
  /\ UNCHANGED <<argVars, env, hostVars, verifyVars, out, err, ops,
                 exitCode>>

\* ... and blocks until the task has completed or failed
KernelReturn ==
  /\ pc = "executing"
  /\ \/ /\ \E res \in KernelResults(integral, device) :
             device' = [device EXCEPT !["cDevice"].data = res]
        /\ elapsed' \in ElapsedVals
        /\ pc' = "report"
        /\ UNCHANGED <<held, errOp, perf>>
     \/ Throw("ExecuteTask")
  /\ UNCHANGED <<argVars, env, hostVars, verifyVars, out, err, ops,
                 exitCode>>

\* mutant: the result is copied back whether or not verification is on
AfterReport_AlwaysCopy(v) == "copyback"

\* mutant: the result is never copied back
AfterReport_SkipCopyBack(v) == "scopeexit"

\* line 114: if (verify)
AfterReport(v) == IF v THEN "copyback" ELSE "scopeexit"

\* lines 106-112; the factor 1e-9 is the unit of perf
ReportPerformance ==
  /\ pc = "report"
  /\ perf' = [num |-> 2 * kSizeN * kSizeK * kSizeM, den |-> elapsed]
  /\ out' = out \o <<"Kernel executed">>
  /\ pc' = AfterReport(verify)
  /\ UNCHANGED <<argVars, env, hostVars, held, device, elapsed, verifyVars,
                 err, errOp, ops, exitCode>>

\* lines 115-116: cDevice.CopyToHost(cMem.begin())
CopyToHostC ==
  /\ pc = "copyback"
  /\ out' = out \o <<"Copying back result...">>
  /\ ops' = ops \o <<"CopyToHost:cDevice">>
  /\ \/ /\ cMem' = Take(device["cDevice"].data, device["cDevice"].size)
        /\ pc' = "scopeexit"
        /\ UNCHANGED <<held, device, errOp, elapsed, perf>>
     \/ /\ Throw("CopyToHost:cDevice")
        /\ UNCHANGED cMem
  /\ UNCHANGED <<argVars, env, rng, a, b, cRef, aMem, bMem, verifyVars, err,
                 exitCode>>

\* line 126: if (verify)
AfterSession(v) == IF v THEN "reference" ELSE "return0"

\* line 118: the try block ends, its locals are destroyed
ScopeExit ==
  /\ pc = "scopeexit"
  /\ held' = {}
  /\ device' = NoDevice
  /\ elapsed' = 0
  /\ perf' = NoPerf
  /\ pc' = AfterSession(verify)
  /\ UNCHANGED <<argVars, env, hostVars, verifyVars, out, err, errOp, ops,
                 exitCode>>

\* mutant: the handler prints the message and falls through
CatchRuntimeError_FallThrough ==
  /\ pc = "catch"
  /\ err' = err \o <<"Execution failed with error: " \o errOp[1]>>
  /\ pc' = AfterSession(verify)
  /\ UNCHANGED <<argVars, env, hostVars, held, device, elapsed, perf,
                 verifyVars, out, errOp, ops, exitCode>>

\* mutant: the handler returns 0
CatchRuntimeError_ReturnZero ==
  /\ pc = "catch"
  /\ err' = err \o <<"Execution failed with error: " \o errOp[1]>>
  /\ exitCode' = <<0>>
  /\ pc' = "done"
  /\ UNCHANGED <<argVars, env, hostVars, held, device, elapsed, perf,
                 verifyVars, out, errOp, ops>>

\* lines 119-123
CatchRuntimeError ==
  /\ pc = "catch"
  /\ err' = err \o <<"Execution failed with error: " \o errOp[1]>>
  /\ exitCode' = <<1>>
  /\ pc' = "done"
  /\ UNCHANGED <<argVars, env, hostVars, held, device, elapsed, perf,
                 verifyVars, out, errOp, ops>>

---------------------------------------------------------------------------
(* Verification, lines 125-149 *)

\* mutant: the reference is computed into the buffer that holds the result
RunReference_IntoResult ==
  /\ pc = "reference"
  /\ out' = out \o <<"Running reference implementation...">>
  /\ ops' = ops \o <<"Reference">>
  /\ cRef' = ReferenceImplementation(integral, a, b)
  /\ cMem' = Pack(ReferenceImplementation(integral, a, b))
  /\ pc' = "unpack"
  /\ UNCHANGED <<argVars, env, rng, a, b, aMem, bMem, held, device,
                 elapsed, perf, verifyVars, err, errOp, exitCode>>

\* lines 127-128
RunReference ==
  /\ pc = "reference"
  /\ out' = out \o <<"Running reference implementation...">>
  /\ ops' = ops \o <<"Reference">>
  /\ cRef' = ReferenceImplementation(integral, a, b)
  /\ pc' = "unpack"
  /\ UNCHANGED <<argVars, env, rng, a, b, aMem, bMem, cMem, held, device,
                 elapsed, perf, verifyVars, err, errOp, exitCode>>

\* lines 130-132
UnpackResult ==
  /\ pc = "unpack"
  /\ out' = out \o <<"Verifying result...">>
  /\ ops' = ops \o <<"Unpack", "Compare">>
  /\ cTest' = Unpack(cMem)
  /\ vi' = 0 /\ vj' = 0
  /\ pc' = "compare"
  /\ UNCHANGED <<argVars, env, hostVars, held, device, elapsed, perf,
                 examined, reports, err, errOp, exitCode>>

\* mutant: the result is indexed column-major
ElementIndex_ColumnMajor(i, j) == j * kSizeN + i + 1

\* lines 136-137: row-major index of (i, j)
ElementIndex(i, j) == i * kSizeM + j + 1

\* mutant: the tolerance test is not strict
Mismatch_NonStrict(isInt, testVal, refVal) ==
  Abs(testVal - refVal) >= Epsilon(isInt)

\* line 139
Mismatch(isInt, testVal, refVal) == Abs(testVal - refVal) > Epsilon(isInt)

\* lines 134-145: one iteration of the inner loop
CompareStep ==
  /\ pc = "compare"
  /\ vi < kSizeN
  /\ LET testVal == cTest[ElementIndex(vi, vj)]
         refVal == cRef[ElementIndex(vi, vj)]
     IN  /\ examined' = Append(examined, <<vi, vj>>)
         /\ IF Mismatch(integral, testVal, refVal)
              THEN /\ reports' = Append(reports,
                        [i |-> vi, j |-> vj, test |-> testVal, ref |-> refVal])
                   /\ err' = err \o <<"Mismatch">>
                   /\ exitCode' = <<1>>
                   /\ pc' = "done"
                   /\ UNCHANGED <<vi, vj>>
              ELSE /\ vi' = IF vj + 1 < kSizeM THEN vi ELSE vi + 1
                   /\ vj' = IF vj + 1 < kSizeM THEN vj + 1 ELSE 0
                   /\ UNCHANGED <<reports, err, exitCode, pc>>
  /\ UNCHANGED <<argVars, env, hostVars, held, device, elapsed, perf, cTest,
                 out, errOp, ops>>

\* line 146
VerifySuccess ==
  /\ pc = "compare"
  /\ vi = kSizeN
  /\ out' = out \o <<"Successfully verified.">>
  /\ pc' = "return0"
  /\ UNCHANGED <<argVars, env, hostVars, held, device, elapsed, perf,
                 verifyVars, err, errOp, ops, exitCode>>

\* line 149
ReturnZero ==
  /\ pc = "return0"
  /\ exitCode' = <<0>>
  /\ pc' = "done"
  /\ UNCHANGED <<argVars, env, hostVars, held, device, elapsed, perf,
                 verifyVars, out, err, errOp, ops>>

Next ==
  \/ ParseArgs
  \/ HostInit
  \/ AcquireContext
  \/ MakeProgram
  \/ MakeBufferA
  \/ MakeBufferB
  \/ MakeBufferC
  \/ CopyFromHostA
  \/ CopyFromHostB
  \/ CopyFromHostC
  \/ MakeKernel
  \/ KernelLaunch
  \/ KernelReturn
  \/ ReportPerformance
  \/ CopyToHostC
  \/ ScopeExit
  \/ CatchRuntimeError
  \/ RunReference
  \/ UnpackResult
  \/ CompareStep
  \/ VerifySuccess
  \/ ReturnZero

Spec == Init /\ [][Next]_vars

\* every statement of main() after the host initialisation, but the wait
\* for the kernel: the host runs them one after the other and each returns
HostSteps ==
  \/ ParseArgs
  \/ AcquireContext
  \/ MakeProgram
  \/ MakeBufferA
  \/ MakeBufferB
  \/ MakeBufferC
  \/ CopyFromHostA
  \/ CopyFromHostB
  \/ CopyFromHostC
  \/ MakeKernel
  \/ KernelLaunch
  \/ ReportPerformance
  \/ CopyToHostC
  \/ ScopeExit
  \/ CatchRuntimeError
  \/ RunReference
  \/ UnpackResult
  \/ CompareStep
  \/ VerifySuccess
  \/ ReturnZero

\* lines 58-75 return as well.  HostInit is enabled exactly when
\* pc = "hostinit" and every HostInit step leaves that position, so this is
\* WF_vars(HostInit) with ENABLED <<HostInit>>_vars written out
HostInitReturns == []<>(pc # "hostinit")

\* the run with its progress: main() keeps executing; whether the kernel
\* ever completes is up to the accelerator
LiveSpec ==
  Init /\ [][Next]_vars /\ WF_vars(HostSteps) /\ HostInitReturns

---------------------------------------------------------------------------
(* Pack and Unpack on their own: an operand of any length that is a        *)
(* multiple of kMemoryWidth is packed as in line 71 and unpacked as in     *)
(* line 132.  cRef keeps the operand as it was drawn.                      *)

ElemVals == {0, 1, 2}

Operands ==
  UNION {[1..(n * kMemoryWidth) -> ElemVals] : n \in 0..MaxPacks}

InitPack ==
  /\ a \in Operands
  /\ cRef = a
  /\ pc = "pack"
  /\ argv = <<>> /\ integral = TRUE /\ env = <<>>
  /\ emulation = FALSE /\ verify = TRUE /\ path = HwPath
  /\ rng = RngSeed(kSeed)
  /\ b = <<>>
  /\ aMem = <<>> /\ bMem = <<>> /\ cMem = <<>>
  /\ held = {} /\ device = NoDevice
  /\ elapsed = 0 /\ perf = NoPerf
  /\ cTest = <<>> /\ vi = 0 /\ vj = 0 /\ examined = <<>>
  /\ out = <<>> /\ err = <<>> /\ reports = <<>>
  /\ errOp = <<>> /\ ops = <<>> /\ exitCode = <<>>

\* line 71: aMem = Pack(a)
PackOperand ==
  /\ pc = "pack"
  /\ aMem' = Pack(a)
  /\ pc' = "packed"
  /\ UNCHANGED <<argVars, env, rng, a, b, cRef, bMem, cMem, held, device,
                 elapsed, perf, verifyVars, out, err, errOp, ops, exitCode>>

\* line 132: Unpack of a pack sequence
UnpackPacks ==
  /\ pc = "packed"
  /\ cTest' = Unpack(aMem)
  /\ pc' = "unpacked"
  /\ UNCHANGED <<argVars, env, hostVars, held, device, elapsed, perf, vi, vj,
                 examined, reports, out, err, errOp, ops, exitCode>>

NextPack == PackOperand \/ UnpackPacks

SpecPack == InitPack /\ [][NextPack]_vars

---------------------------------------------------------------------------
(* Vocabulary of the properties *)

Range(s) == {s[k] : k \in DOMAIN s}
Count(s, x) == Cardinality({k \in DOMAIN s : s[k] = x})
IsPrefix(s, t) == Len(s) <= Len(t) /\ \A k \in 1..Len(s) : s[k] = t[k]

HostOps == {"Generate", "Pack", "Reference", "Unpack", "Compare"}
IsSessionOp(op) == op \notin HostOps
SessionOps == SelectSeq(ops, IsSessionOp)

InputTransfers ==
  <<"CopyFromHost:aDevice", "CopyFromHost:bDevice", "CopyFromHost:cDevice">>

\* the seven session steps in the required order
ExpectedSession(v, image) ==
  <<"Context", "MakeProgram:" \o image,
    "MakeBuffer:aDevice", "MakeBuffer:bDevice", "MakeBuffer:cDevice">>
  \o (IF v THEN InputTransfers ELSE <<>>)
  \o <<"MakeKernel", "ExecuteTask">>
  \o (IF v THEN <<"CopyToHost:cDevice">> ELSE <<>>)

ModeIsEmu == Len(argv) >= 1 /\ argv[1] = "hw_emu"
ModeImage == IF ModeIsEmu THEN EmuPath ELSE HwPath
VerifyIsOff == Len(argv) >= 2 /\ argv[2] = "off"

\* the argument lists section 6 of the specification accepts
Accepted ==
  /\ Len(argv) <= 2
  /\ Len(argv) >= 1 => argv[1] \in {"hw", "hw_emu"}
  /\ Len(argv) >= 2 => argv[2] \in {"on", "off"}

Finished == pc = "done"

\* C1: the session operations occur in the fixed order context, program,
\* three buffers, input transfers (verify-on only), kernel creation, kernel
\* execution, output transfer (verify-on only); none is repeated, and while
\* the kernel is in progress it is the last operation started, the next one
\* starting only once it has completed.
C1_SessionOrder ==
  /\ IsPrefix(SessionOps, ExpectedSession(~VerifyIsOff, ModeImage))
  /\ \A op \in Range(SessionOps) : Count(ops, op) = 1
  /\ pc = "executing" =>
       /\ SessionOps # <<>>
       /\ SessionOps[Len(SessionOps)] = "ExecuteTask"
       /\ elapsed = 0
  /\ pc \in {"report", "copyback", "scopeexit"} => elapsed \in ElapsedVals
  /\ "CopyToHost:cDevice" \in Range(ops) => "Kernel executed" \in Range(out)

C1_Witness ==
  /\ Finished
  /\ exitCode = <<0>>
  /\ verify
  /\ SessionOps = ExpectedSession(TRUE, EmuPath)

\* C2: once a session step has thrown a runtime error, no later step is
\* started, neither the reference nor the comparison runs, "Successfully
\* verified." is not printed, the error message is printed once and the
\* run exits with status 1; the failed step is not retried.
C2_ErrorAborts ==
  errOp # <<>> =>
    /\ ops # <<>> /\ ops[Len(ops)] = errOp[1]
    /\ Count(ops, errOp[1]) = 1
    /\ "Reference" \notin Range(ops)
    /\ "Compare" \notin Range(ops)
    /\ "Successfully verified." \notin Range(out)
    /\ pc \in {"catch", "done"}
    /\ pc = "catch" => err = <<>> /\ exitCode = <<>>
    /\ pc = "done" =>
         /\ err = <<"Execution failed with error: " \o errOp[1]>>
         /\ exitCode = <<1>>

C2_Witness ==
  /\ Finished
  /\ verify
  /\ errOp = <<"CopyFromHost:bDevice">>
  /\ exitCode = <<1>>

GatedOps ==
  {"Generate", "Pack", "CopyFromHost:aDevice", "CopyFromHost:bDevice",
   "CopyFromHost:cDevice", "CopyToHost:cDevice", "Reference", "Compare"}

\* C3: with verification off, no operand is generated, nothing is packed,
\* transferred, computed as reference or compared, yet the session is run
\* and a throughput derived from the kernel's elapsed time is reported;
\* with verification on and no error each of those steps occurs once.
C3_VerifyGating ==
  /\ (pc # "parse" /\ VerifyIsOff /\ Accepted) =>
       /\ Range(ops) \cap GatedOps = {}
       /\ "Unpack" \notin Range(ops)
       /\ a = <<>> /\ b = <<>> /\ cRef = <<>>
       /\ aMem = <<>> /\ bMem = <<>> /\ cMem = <<>>
       /\ cTest = <<>> /\ examined = <<>>
       /\ rng = RngSeed(kSeed)
  /\ (pc = "scopeexit" /\ VerifyIsOff) =>
       /\ ops = ExpectedSession(FALSE, ModeImage)
       /\ elapsed \in ElapsedVals
       /\ perf = [num |-> 2 * kSizeN * kSizeK * kSizeM, den |-> elapsed]
       /\ out[Len(out)] = "Kernel executed"
  /\ (Finished /\ VerifyIsOff /\ Accepted /\ errOp = <<>>) =>
       /\ ops = ExpectedSession(FALSE, ModeImage)
       /\ Count(out, "Kernel executed") = 1
       /\ exitCode = <<0>>
  /\ (Finished /\ ~VerifyIsOff /\ Accepted /\ errOp = <<>>) =>
       \A op \in GatedOps : Count(ops, op) = 1

C3_Witness ==
  /\ pc = "scopeexit"
  /\ ~verify
  /\ perf.den = 2
  /\ "ExecuteTask" \in Range(ops)

\* C4: an argument list is accepted iff it has at most two arguments, the
\* first (if any) hw or hw_emu and the second (if any) on or off; any other
\* list prints the usage text and exits with status 1 before any
\* accelerator operation.
C4_ArgumentValidation ==
  pc # "parse" =>
    IF Accepted
      THEN /\ UsageText \notin Range(out)
           /\ pc = "hostinit" \/ "Initializing host memory..." \in Range(out)
      ELSE /\ Finished
           /\ exitCode = <<1>>
           /\ out = <<UsageText>>
           /\ ops = <<>>
           /\ held = {}
           /\ device = NoDevice

C4_Witness ==
  /\ Finished
  /\ argv = <<"hw", "maybe">>
  /\ exitCode = <<1>>
  /\ out = <<UsageText>>

\* some element of the accelerator's result is further than the tolerance
\* from the reference
MismatchExists ==
  \E e \in 1..(kSizeN * kSizeM) : Abs(cTest[e] - cRef[e]) > Epsilon(integral)

\* C5: the run exits with status 0 iff the arguments are accepted, no
\* runtime error occurred and verification is off or found no mismatch;
\* every other finished run exits with status 1.
C5_ExitStatus ==
  /\ exitCode \in {<<>>, <<0>>, <<1>>}
  /\ Finished <=> exitCode # <<>>
  /\ Finished =>
       (exitCode = <<0>> <=>
          /\ Accepted
          /\ errOp = <<>>
          /\ VerifyIsOff \/ ~MismatchExists)

C5_Witness ==
  /\ Finished
  /\ exitCode = <<0>>
  /\ "Successfully verified." \in Range(out)

\* the elements (row-major, from 1) that fail the tolerance test
BadElements ==
  {e \in 1..(kSizeN * kSizeM) : Abs(cTest[e] - cRef[e]) > Epsilon(integral)}

Min(S) == CHOOSE x \in S : \A y \in S : x <= y

\* the coordinates of elements 1..n in row-major order
Coordinates(n) == [e \in 1..n |-> <<(e - 1) \div kSizeM, (e - 1) % kSizeM>>]

\* C6: the comparison fails iff some coordinate differs from the reference
\* by more than the tolerance; it then reports exactly one mismatch, the
\* first in row-major order, with the accelerator's and the reference's
\* value there, and looks at no coordinate after it.
C6_FirstMismatch ==
  /\ pc = "compare" => reports = <<>>
  /\ (Finished /\ "Compare" \in Range(ops)) =>
       /\ cTest = Unpack(cMem)
       /\ cRef = ReferenceImplementation(integral, a, b)
       /\ IF BadElements = {}
            THEN /\ reports = <<>>
                 /\ err = <<>>
                 /\ exitCode = <<0>>
                 /\ examined = Coordinates(kSizeN * kSizeM)
            ELSE LET f == Min(BadElements)
                 IN  /\ reports = <<[i |-> (f - 1) \div kSizeM,
                                     j |-> (f - 1) % kSizeM,
                                     test |-> cTest[f], ref |-> cRef[f]]>>
                     /\ err = <<"Mismatch">>
                     /\ exitCode = <<1>>
                     /\ examined = Coordinates(f)

C6_Witness ==
  /\ Finished
  /\ Len(reports) = 1
  /\ Cardinality(BadElements) = 2
  /\ reports[1].i = 0 /\ reports[1].j = 1
  /\ kSizeM + 1 \in BadElements

SessionSteps ==
  {"context", "program", "bufA", "bufB", "bufC", "copyA", "copyB", "copyC",
   "mkkernel", "launch", "executing", "report", "copyback", "scopeexit"}

\* C7 as stated: in a verify-on run the reference result exists before the
\* session is run, and the comparison follows both.
C7_ReferenceBeforeSession ==
  (verify /\ "Context" \in Range(ops)) =>
    /\ "Reference" \in Range(ops)
    /\ cRef = ReferenceImplementation(integral, a, b)

\* C7 (amended): in a verify-on run the reference computation is run only
\* after the accelerator session has completed without a runtime error; the
\* comparison takes place only after both have completed.
C7_ReferenceAfterSession ==
  /\ (pc \in SessionSteps /\ verify) =>
       /\ "Reference" \notin Range(ops)
       /\ cRef = Zeros(kSizeN * kSizeM)
  /\ "Reference" \in Range(ops) =>
       /\ verify
       /\ errOp = <<>>
       /\ SessionOps = ExpectedSession(TRUE, ModeImage)
       /\ held = {}
       /\ cRef = ReferenceImplementation(integral, a, b)
  /\ "Compare" \in Range(ops) =>
       /\ "Reference" \in Range(ops)
       /\ \E k, m \in DOMAIN ops :
            /\ ops[k] = "CopyToHost:cDevice" /\ ops[m] = "Reference"
            /\ k < m /\ m < Len(ops)

C7_Witness ==
  /\ pc = "compare"
  /\ vi = 1
  /\ "Reference" \in Range(ops)
  /\ cRef # Zeros(kSizeN * kSizeM)

Resources ==
  {"context", "program", "aDevice", "bDevice", "cDevice", "kernel"}

\* C8: on every exit path every accelerator resource that was acquired has
\* been released when the process exits, and all are released before the
\* reference computation and the comparison start.
C8_ResourcesReleased ==
  /\ held \subseteq Resources
  /\ \A n \in BufferNames : device[n].alloc <=> n \in held
  /\ Finished => held = {}
  /\ pc \in {"catch", "reference", "unpack", "compare", "return0"} =>
       held = {}
  /\ ("Reference" \in Range(ops) \/ "Compare" \in Range(ops)) => held = {}

C8_Witness ==
  /\ Finished
  /\ errOp = <<"ExecuteTask">>
  /\ "MakeKernel" \in Range(ops)
  /\ held = {}

\* C9: whatever XCL_EMULATION_MODE was when the program started, for every
\* accepted argument list it is hw_emu iff argument 1 is hw_emu and unset
\* otherwise from the end of argument parsing on, hence when the context
\* is acquired and at every later point.
C9_EmulationVariable ==
  (pc # "parse" /\ Accepted) =>
    env = IF ModeIsEmu THEN <<"hw_emu">> ELSE <<>>

C9_Witness ==
  /\ "Context" \in Range(ops)
  /\ argv = <<"hw">>
  /\ env = <<>>

ProgramOps == {"MakeProgram:" \o HwPath, "MakeProgram:" \o EmuPath}

\* C10: the image programmed is MatrixMultiplication_hw_emu.xclbin iff
\* argument 1 is hw_emu and MatrixMultiplication_hw.xclbin otherwise, so
\* the emulation image is loaded iff XCL_EMULATION_MODE is set then.
C10_ImageForMode ==
  /\ Range(ops) \cap ProgramOps \subseteq {"MakeProgram:" \o ModeImage}
  /\ pc = "program" => path = ModeImage
  /\ \A image \in {HwPath, EmuPath} :
       ("MakeProgram:" \o image) \in Range(ops) =>
          (image = EmuPath <=> env # <<>>)

C10_Witness ==
  /\ ("MakeProgram:" \o EmuPath) \in Range(ops)
  /\ argv = <<"hw_emu", "off">>
  /\ "program" \in held

\* the position of op in the history, 0 when it has not been started
Position(op) ==
  IF op \in Range(ops) THEN CHOOSE k \in DOMAIN ops : ops[k] = op ELSE 0

KernelCompleted == "Kernel executed" \in Range(out)

\* C11: the buffers are used as declared: the write-only output buffer is
\* copied back only after the kernel execution has completed, the two
\* read-only input buffers are never copied back to the host, and they are
\* written only before the kernel is launched and keep what was written.
C11_AccessModes ==
  /\ \A n \in BufferNames :
       device[n].alloc =>
         device[n].access = IF n = "cDevice" THEN "write" ELSE "read"
  /\ "CopyToHost:aDevice" \notin Range(ops)
  /\ "CopyToHost:bDevice" \notin Range(ops)
  /\ "CopyToHost:cDevice" \in Range(ops) =>
       /\ 0 < Position("ExecuteTask")
       /\ Position("ExecuteTask") < Position("CopyToHost:cDevice")
       /\ KernelCompleted
       /\ pc # "executing"
  /\ \A n \in {"aDevice", "bDevice"} :
       ("CopyFromHost:" \o n) \in Range(ops) /\ "ExecuteTask" \in Range(ops)
         => Position("CopyFromHost:" \o n) < Position("ExecuteTask")
  /\ (pc \in {"executing", "report", "copyback", "scopeexit"} /\ verify) =>
       /\ device["aDevice"].data = aMem
       /\ device["bDevice"].data = bMem

C11_Witness ==
  /\ pc = "scopeexit"
  /\ verify
  /\ "CopyToHost:cDevice" \in Range(ops)
  /\ cMem # Pack(Zeros(kSizeN * kSizeM))
  /\ device["cDevice"].access = "write"

\* C12: an operand of length L, a multiple of the memory width W, packs
\* into L/W packs, pack i holding elements [i*W, (i+1)*W) in order;
\* unpacking the packs gives the operand back element for element, and
\* neither operation changes what it was given.
C12_PackRoundTrip ==
  /\ a = cRef
  /\ pc \in {"packed", "unpacked"} =>
       /\ Len(aMem) * kMemoryWidth = Len(cRef)
       /\ \A i \in 0..(Len(aMem) - 1) :
            aMem[i + 1] = SubSeq(cRef, i * kMemoryWidth + 1,
                                 (i + 1) * kMemoryWidth)
  /\ pc = "unpacked" =>
       /\ cTest = cRef
       /\ \A i \in 0..(Len(aMem) - 1) :
            aMem[i + 1] = SubSeq(cTest, i * kMemoryWidth + 1,
                                 (i + 1) * kMemoryWidth)

C12_Witness ==
  /\ pc = "unpacked"
  /\ Len(aMem) = 2
  /\ cTest = <<0, 1, 2, 1>>
  /\ aMem = <<<<0, 1>>, <<2, 1>>>>

\* the host pack sequence that belongs to a device buffer
HostMemory(n) ==
  IF n = "aDevice" THEN aMem ELSE IF n = "bDevice" THEN bMem ELSE cMem

\* dimension product / W of the matrix a device buffer holds
PacksOf(n) ==
  IF n = "aDevice" THEN (kSizeN * kSizeK) \div kMemoryWidth
  ELSE IF n = "bDevice" THEN (kSizeK * kSizeM) \div kMemoryWidth
  ELSE (kSizeN * kSizeM) \div kMemoryWidth

\* C13: each device buffer holds exactly dimension product / W packs, and
\* with verification on each copy is between a host pack sequence and its
\* own device buffer, whose pack count is the length of the sequence.
C13_BufferSizes ==
  /\ \A n \in BufferNames : device[n].alloc => device[n].size = PacksOf(n)
  /\ ("Pack" \in Range(ops)) =>
       \A n \in BufferNames : Len(HostMemory(n)) = PacksOf(n)
  /\ \A n \in BufferNames :
       (verify /\ device[n].alloc /\ device[n].data # <<>>
          /\ pc \in {"copyB", "copyC", "mkkernel", "launch", "executing"}) =>
         /\ ("CopyFromHost:" \o n) \in Range(ops)
         /\ device[n].data = HostMemory(n)
         /\ device[n].size = Len(HostMemory(n))
  /\ (verify /\ pc \in {"mkkernel", "launch", "executing"}) =>
       \A n \in BufferNames : device[n].data = HostMemory(n)
  /\ (verify /\ pc = "scopeexit") =>
       /\ cMem = device["cDevice"].data
       /\ Len(cMem) = device["cDevice"].size

C13_Witness ==
  /\ pc = "scopeexit"
  /\ verify
  /\ aMem # bMem
  /\ device["aDevice"].data = aMem
  /\ device["bDevice"].data = bMem
  /\ device["cDevice"].data = cMem
  /\ cMem # Pack(Zeros(kSizeN * kSizeM))
  /\ PacksOf("aDevice") = PacksK * kSizeN

\* how far element e of the accelerator's result is from the reference
Difference(e) == Abs(cTest[e] - cRef[e])

\* C14: the tolerance, 1e-3 in the element type, is tested strictly: a
\* result whose elements differ from the reference by at most exactly the
\* tolerance passes; one element differing by the tolerance plus one tick,
\* the others within it, fails and that element's coordinate is reported.
C14_ToleranceBoundary ==
  /\ Epsilon(integral) = IF integral THEN 0 ELSE 1
  /\ ~integral => 1000 * Epsilon(integral) = TicksPerUnit(integral)
  /\ (Finished /\ "Compare" \in Range(ops)) =>
       LET eps == Epsilon(integral)
           all == 1..(kSizeN * kSizeM)
       IN  /\ (\A e \in all : Difference(e) <= eps) =>
                /\ reports = <<>>
                /\ exitCode = <<0>>
                /\ "Successfully verified." \in Range(out)
           /\ \A e \in all :
                (/\ Difference(e) = eps + 1
                 /\ \A o \in all \ {e} : Difference(o) <= eps) =>
                  /\ exitCode = <<1>>
                  /\ Len(reports) = 1
                  /\ reports[1].i = (e - 1) \div kSizeM
                  /\ reports[1].j = (e - 1) % kSizeM
                  /\ reports[1].test = cTest[e]
                  /\ reports[1].ref = cRef[e]

C14_Witness ==
  /\ Finished
  /\ ~integral
  /\ "Compare" \in Range(ops)
  /\ Difference(2) = Epsilon(integral)
  /\ Difference(3) = Epsilon(integral) + 1
  /\ Difference(1) = 0 /\ Difference(4) = 0
  /\ reports = <<[i |-> 1, j |-> 0, test |-> cTest[3], ref |-> cRef[3]]>>

\* the states an engine goes through from s while n values are drawn
RECURSIVE StatesFrom(_, _, _)
StatesFrom(isInt, s, n) ==
  IF n = 0 THEN <<s>>
  ELSE <<s>> \o StatesFrom(isInt, Draw(isInt, s).state, n - 1)

\* the states of the engine seeded with kSeed, one before each value drawn at
\* lines 63-68 and one after the last
Stream(isInt) ==
  StatesFrom(isInt, RngSeed(kSeed), kSizeN * kSizeK + kSizeK * kSizeM)

StateBefore(isInt, k) == Stream(isInt)[k]

SeededA(isInt) ==
  LET st == Stream(isInt)
  IN  [e \in 1..(kSizeN * kSizeK) |-> Draw(isInt, st[e]).val]

SeededB(isInt) ==
  LET st == Stream(isInt)
  IN  [e \in 1..(kSizeK * kSizeM) |->
         Draw(isInt, st[kSizeN * kSizeK + e]).val]

\* C15: the operands of a verify-on run are the first N*K values (A) and
\* the next K*M values (B) of the one generator seeded with kSeed, and the
\* reference result is their product: all three depend on the seed and the
\* element type only, whatever the mode argument, the environment and the
\* accelerator's result, so two runs with the same seed agree on them.
C15_SeedDeterminism ==
  /\ pc \in {"parse", "hostinit"} => rng = RngSeed(kSeed)
  /\ "Generate" \in Range(ops) =>
       /\ a = SeededA(integral)
       /\ b = SeededB(integral)
       /\ rng = StateBefore(integral, kSizeN * kSizeK + kSizeK * kSizeM + 1)
  /\ "Reference" \in Range(ops) =>
       cRef = ReferenceImplementation(integral, SeededA(integral),
                                      SeededB(integral))

C15_Witness ==
  /\ pc = "compare"
  /\ ModeIsEmu
  /\ cTest # cRef
  /\ a = SeededA(integral)
  /\ b = SeededB(integral)
  /\ a # b

Placeholder == Pack(Zeros(kSizeN * kSizeM))

\* what holds of the result in every state
ResultState ==
  /\ (verify /\ "Pack" \in Range(ops) /\ "CopyToHost:cDevice" \notin Range(ops))
       => cMem = Placeholder
  /\ (verify /\ pc = "scopeexit") => cMem = device["cDevice"].data
  /\ "Compare" \in Range(ops) =>
       /\ cTest = Unpack(cMem)
       /\ \A e \in 1..(kSizeN * kSizeM) :
            cRef[e] >= kSizeK * TicksPerUnit(integral)
  /\ (Finished /\ "Compare" \in Range(ops) /\ cMem = Placeholder) =>
       /\ exitCode = <<1>>
       /\ reports = <<[i |-> 0, j |-> 0, test |-> 0, ref |-> cRef[1]]>>

\* what holds of every step: between the kernel's completion and the copy
\* back the output buffer keeps the kernel's result, and once copied back
\* the host copy and its unpacked form keep their value
ResultStep ==
  /\ (pc \in {"report", "copyback"} /\ pc' # "catch") =>
       device'["cDevice"].data = device["cDevice"].data
  /\ pc \in {"scopeexit", "reference", "unpack", "compare", "return0"} =>
       cMem' = cMem
  /\ pc \in {"compare", "return0"} => cTest' = cTest /\ cRef' = cRef

\* C16: in a verify-on run without runtime error the values compared are
\* the output buffer's contents at kernel completion, unpacked in order:
\* the copy back overwrites the zero placeholder, the reference computed
\* afterwards leaves the host copy alone, and a kernel that leaves the
\* placeholder in the output buffer fails verification, every reference
\* element being at least K.
C16_ComparedValues == [] ResultState /\ [][ResultStep]_vars

C16_Witness ==
  /\ Finished
  /\ "Compare" \in Range(ops)
  /\ cTest = Zeros(kSizeN * kSizeM)
  /\ exitCode = <<1>>
  /\ cRef[1] >= kSizeK * TicksPerUnit(integral)

\* while the kernel is in progress nothing after it has happened
BlockedOnKernel ==
  pc = "executing" =>
    /\ exitCode = <<>>
    /\ ~KernelCompleted
    /\ "CopyToHost:cDevice" \notin Range(ops)
    /\ "Reference" \notin Range(ops)
    /\ "Compare" \notin Range(ops)
    /\ elapsed = 0

\* C17: every run either waits for the kernel for ever or terminates with
\* exit status 0 or 1; while the kernel is in progress the harness has
\* neither reported, copied back, verified nor exited, and the only step
\* out of the wait is the kernel's completion or failure: there is no
\* timeout and no cancellation.
C17_TerminationOrHang ==
  /\ <>[](pc = "executing") \/ <>(Finished /\ exitCode \in {<<0>>, <<1>>})
  /\ [] BlockedOnKernel
  /\ [][pc = "executing" =>
          \/ pc' = "report" /\ elapsed' \in ElapsedVals
          \/ pc' = "catch" /\ errOp' = <<"ExecuteTask">>]_vars

C17_Witness ==
  /\ Finished
  /\ exitCode = <<0>>
  /\ "ExecuteTask" \in Range(ops)
  /\ "Successfully verified." \in Range(out)

===========================================================================
